---- MODULE Spec2Model ----
(***************************************************************************)
(* The DynamoDB storage connector of deepstream.io: set and delete are     *)
(* accumulated in a batch that is written immediately when no timer is     *)
(* armed and otherwise when the bufferTimeout timer fires; get is a point  *)
(* read.  src/src/connector.js is the batching connector.                  *)
(***************************************************************************)
EXTENDS Integers, Sequences, FiniteSets, TLC

VARIABLES
    batch,           \* this._batch: NULL or [RequestItems |-> table -> list of items]
    batchCallbacks,  \* this._batchCallbacks: NULL or the list of registered callbacks
    batchTimeout,    \* this._batchTimeout: NoTimeout or the handle setTimeout returned
    timers,          \* the handles of the timers that are armed and have not fired
    flushes,         \* every documentClient.batchWrite call, in the order issued
    db,              \* the backend's items: table -> local id -> stored item or Absent
    gets,            \* every documentClient.get call, in the order issued
    calls,           \* every set / delete call, in the order issued (history)
    cbLog,           \* per set / delete call: the invocations of its callback (history)
    timerFires,      \* how many times a timer has fired (history)
    options,         \* the argument the constructor is called with
    connector,       \* NULL, or the instance the constructor returned
    thrown,          \* NULL, or the message of the error the constructor threw
    aws,             \* the AWS SDK: the configured region and the clients created
    tableState,      \* the backend's tables: table -> "NONE", "CREATING", "ACTIVE", "DELETING"
    admin            \* every createTable / deleteTable call, in the order issued

\* what set, delete, get and the timer leave alone
envVars == <<options, connector, thrown, aws, tableState, admin>>

vars == <<batch, batchCallbacks, batchTimeout, timers, flushes, db, gets, calls,
          cbLog, timerFires, options, connector, thrown, aws, tableState, admin>>

-----------------------------------------------------------------------------
(* Bounds of the model and the inputs the callers draw from.               *)

MaxCalls == 3
MaxLiveCalls == 3
MaxStoreCalls == 2
MaxDeepCalls == 4
MaxGets == 1
MaxCtorCalls == 2
MaxAdminCalls == 2
MaxKeyCalls == 3
MaxTableCalls == 3

NULL == [null |-> TRUE]
Absent == [absent |-> TRUE]
NoTimeout == 0

\* JavaScript values: undefined, numbers, booleans, objects (strings are Str below)
Undefined == [undefined |-> TRUE]
Num(n) == [num |-> n]
Bool(b) == [bool |-> b]
Obj(fields) == [obj |-> fields]

TableA == <<"a", "p", "p", "0", "0", "1">>
TableB == <<"a", "p", "p", "0", "0", "2">>
IdX == <<"x">>
IdY == <<"y">>
Tables == {TableA, TableB}
LocalIds == {IdX, IdY}
KeyAX == TableA \o IdX
KeyAY == TableA \o IdY
KeyBX == TableB \o IdX

Value1 == ("_d" :> [firstname |-> "Wolfram"]) @@ ("v" :> 10)
Value2 == ("_d" :> [firstname |-> "Yasser"]) @@ ("v" :> 11)

\* the set / delete calls the callers of Spec make
SetInputs == {<<KeyAX, Value1>>, <<KeyAX, Value2>>, <<KeyAY, Value1>>}
DeleteInputs == {KeyAX}
\* the calls the callers of LiveSpec make
LiveSetInputs == {<<KeyAX, Value1>>}
LiveDeleteInputs == {KeyAX}
\* the calls the callers of StoreSpec make, all on one key
StoreSetInputs == {<<KeyAX, Value1>>, <<KeyAX, Value2>>}
StoreDeleteInputs == {KeyAX}
StoreGetInputs == {KeyAX}
\* the calls the callers of DeepSpec make, all on one key
DeepSetInputs == {<<KeyAX, Value1>>}
DeepDeleteInputs == {KeyAX}
DeepGetInputs == {KeyAX}

BatchErrors == {[code |-> "ProvisionedThroughputExceededException", message |-> "throttled"]}
BatchData == [UnprocessedItems |-> <<>>]
\* a JavaScript string value
Str(text) == [str |-> text]
\* o.f for a value o that is neither undefined nor null
Field(o, f) == IF "obj" \in DOMAIN o /\ f \in DOMAIN o.obj THEN o.obj[f] ELSE Undefined

\* !v is false
Truthy(v) ==
    ~(v = Undefined \/ v = NULL \/ v = Str("") \/ v = Num(0) \/ v = Bool(FALSE))

\* the settings of the tests that write values, and of the tests of the structure
TestSettings == Obj(("region" :> Str("eu-central-1")) @@ ("bufferTimeout" :> Num(1200)))
RegionOnlySettings == Obj("region" :> Str("eu-central-1"))

\* the arguments the callers of CtorSpec construct the connector with
OptionInputs ==
    {Undefined, Str("gibberish"), Obj(<<>>), RegionOnlySettings, TestSettings,
     Obj("bufferTimeout" :> Num(500)),
     Obj(("region" :> Str("")) @@ ("bufferTimeout" :> Num(500))),
     Obj(("region" :> Str("eu-central-1")) @@ ("bufferTimeout" :> Num(0))),
     Obj(("region" :> Str("us-east-1")) @@ ("bufferTimeout" :> Num(500)))}
\* the calls the callers of CtorSpec make once the connector is constructed
CtorSetInputs == {<<KeyAX, Value1>>}
CtorDeleteInputs == {KeyAX}

\* keys of other lengths: ten characters, and fewer than the width of a table name
KeyLong == <<"a", "b", "c", "d", "e", "f", "g", "h", "i", "j">>
KeyShort == <<"a", "b", "c">>
\* the calls the callers of KeySpec make
KeySetInputs == {<<KeyLong, Value1>>, <<KeyShort, Value1>>, <<KeyAX, Value1>>}
KeyDeleteInputs == {KeyShort}
\* the calls the callers of TableSpec make: one local id in two tables
TableSetInputs == {<<KeyAX, Value1>>, <<KeyBX, Value1>>}
TableDeleteInputs == {KeyAX, KeyBX}

\* the createTable / deleteTable calls the callers of AdminSpec make
AdminTables == {TableA}
DontWaitInputs == {Bool(TRUE), Bool(FALSE), Undefined}
\* the errors of the backend's table administration
TableInUse == [code |-> "ResourceInUseException", message |-> Str("table in use")]
TableNotFound == [code |-> "ResourceNotFoundException", message |-> Str("no such table")]
TableLimit == [code |-> "LimitExceededException", message |-> Str("too many tables")]
NotReady == [code |-> "ResourceNotReady", message |-> Str("resource is not in the state")]

GetErrors == {[code |-> "ResourceNotFoundException", message |-> Str("no such table")],
              [code |-> "InternalServerError", message |-> Str("internal")]}

-----------------------------------------------------------------------------
(* Pure helpers.                                                           *)

\* String.prototype.substr(start [, length]) on a string held as a tuple of characters
substr(s, start, length) ==
    LET from == IF start > Len(s) THEN Len(s) ELSE start
        n == IF length > Len(s) - from THEN Len(s) - from ELSE length
    IN  [i \in 1..n |-> s[from + i]]

NamespaceWidth == 6

\* _getId that returns the whole name
_getId_wholeName(name) == substr(name, 0, Len(name))

_getId(name) == substr(name, NamespaceWidth, Len(name))

_getTableName(name) == substr(name, 0, NamespaceWidth)

\* the value codec ./transform-data
transformValueForStorage(value) ==
    [f \in DOMAIN value["_d"] \cup {"__ds"} |->
        IF f = "__ds" THEN [g \in DOMAIN value \ {"_d"} |-> value[g]]
        ELSE value["_d"][f]]

transformValueFromStorage(item) ==
    ("_d" :> [f \in DOMAIN item \ {"__ds"} |-> item[f]]) @@ item["__ds"]

\* data.ds_id = id : sets (or overwrites) the field ds_id of the record
WithDsId(data, id) ==
    [f \in DOMAIN data \cup {"ds_id"} |-> IF f = "ds_id" THEN id ELSE data[f]]

\* delete res.Item.ds_id
WithoutDsId(item) == [f \in DOMAIN item \ {"ds_id"} |-> item[f]]

PutItem(id, data) ==
    [PutRequest |-> [Item |-> WithDsId(transformValueForStorage(data), _getId(id))]]

DeleteItem(id) == [DeleteRequest |-> [Key |-> [ds_id |-> _getId(id)]]]

IsPut(item) == "PutRequest" \in DOMAIN item
IsDelete(item) == "DeleteRequest" \in DOMAIN item

\* _getIndexWithinBatch: the first index (from 0) of an item of the same kind
\* with the same ds_id in the table's list, or -1
RECURSIVE ScanBatch(_, _, _)
ScanBatch(list, item, i) ==
    IF i >= Len(list) THEN -1
    ELSE IF IsPut(item) /\ IsPut(list[i + 1])
            /\ item.PutRequest.Item.ds_id = list[i + 1].PutRequest.Item.ds_id
         THEN i
    ELSE IF IsDelete(item) /\ IsDelete(list[i + 1])
            /\ item.DeleteRequest.Key.ds_id = list[i + 1].DeleteRequest.Key.ds_id
         THEN i
    ELSE ScanBatch(list, item, i + 1)

\* _getIndexWithinBatch that matches on ds_id alone, whatever the kinds
RECURSIVE ScanBatch_anyKind(_, _, _)
ScanBatch_anyKind(list, item, i) ==
    LET idOf(x) == IF IsPut(x) THEN x.PutRequest.Item.ds_id ELSE x.DeleteRequest.Key.ds_id
    IN  IF i >= Len(list) THEN -1
        ELSE IF idOf(item) = idOf(list[i + 1]) THEN i
        ELSE ScanBatch_anyKind(list, item, i + 1)

_getIndexWithinBatch_anyKind(b, table, item) ==
    ScanBatch_anyKind(b.RequestItems[table], item, 0)

_getIndexWithinBatch(b, table, item) == ScanBatch(b.RequestItems[table], item, 0)

\* lines 288-303 of _addToBatch: the batch after the item is pushed or replaces
\* the lazy allocation that takes up again the batch handed to the last batchWrite
EnsureBatch_reusesFlushed(b) ==
    IF b = NULL
    THEN IF flushes = <<>> THEN [RequestItems |-> <<>>] ELSE flushes[Len(flushes)].params
    ELSE b

EnsureBatch(b) == IF b = NULL THEN [RequestItems |-> <<>>] ELSE b

EnsureTable(b, table) ==
    IF table \in DOMAIN b.RequestItems THEN b
    ELSE [RequestItems |-> (table :> <<>>) @@ b.RequestItems]

\* PlaceItem without the replacement: the item is always pushed
PlaceItem_alwaysPush(b, table, item) ==
    [RequestItems |-> [b.RequestItems EXCEPT ![table] = Append(@, item)]]

PlaceItem(b, table, item) ==
    LET indexWithinBatch == _getIndexWithinBatch(b, table, item)
    IN  IF indexWithinBatch = -1
        THEN [RequestItems |-> [b.RequestItems EXCEPT ![table] = Append(@, item)]]
        ELSE [RequestItems |-> [b.RequestItems EXCEPT ![table][indexWithinBatch + 1] = item]]

BatchWith(b, table, item) == PlaceItem(EnsureTable(EnsureBatch(b), table), table, item)

\* the backend applying one table's list of a batchWrite in list order
RECURSIVE ApplyList(_, _)
ApplyList(tbl, list) ==
    IF list = <<>> THEN tbl
    ELSE LET item == Head(list)
             next == IF IsPut(item)
                     THEN [tbl EXCEPT ![item.PutRequest.Item.ds_id] = item.PutRequest.Item]
                     ELSE [tbl EXCEPT ![item.DeleteRequest.Key.ds_id] = Absent]
         IN  ApplyList(next, Tail(list))

ApplyBatch(d, params) ==
    [t \in DOMAIN d |->
        IF t \in DOMAIN params.RequestItems THEN ApplyList(d[t], params.RequestItems[t])
        ELSE d[t]]

-----------------------------------------------------------------------------
(* The state after construction.                                            *)

Init ==
    /\ batch = NULL
    /\ batchCallbacks = NULL
    /\ batchTimeout = NoTimeout
    /\ timers = {}
    /\ flushes = <<>>
    /\ db = [t \in Tables |-> [i \in LocalIds |-> Absent]]
    /\ gets = <<>>
    /\ calls = <<>>
    /\ cbLog = <<>>
    /\ timerFires = 0
    /\ options = TestSettings
    /\ connector = [isReady |-> TRUE, name |-> Str("pkg.name"),
                    version |-> Str("pkg.version"), _options |-> TestSettings]
    /\ thrown = NULL
    /\ aws = [region |-> Str("eu-central-1"), clients |-> {"DynamoDB", "DocumentClient"}]
    /\ tableState = [t \in Tables |-> "ACTIVE"]
    /\ admin = <<>>

-----------------------------------------------------------------------------
(* Operations.                                                              *)

\* _writeBatch that leaves the handle set when nothing is pending
WriteBatch_keepsHandle(b, cbs, tm, from) ==
    IF b = NULL
    THEN /\ batch' = b
         /\ batchCallbacks' = cbs
         /\ timers' = tm
         /\ UNCHANGED <<batchTimeout, flushes>>
    ELSE LET handle == Len(flushes) + 1
         IN  /\ flushes' = Append(flushes, [params |-> b, callbacks |-> cbs,
                                            done |-> FALSE, err |-> NULL, data |-> NULL,
                                            from |-> from])
             /\ batchCallbacks' = <<>>
             /\ batch' = NULL
             /\ batchTimeout' = handle
             /\ timers' = tm \cup {handle}

\* _writeBatch that does not clear this._batch after handing it over
WriteBatch_keepsBatch(b, cbs, tm, from) ==
    IF b = NULL
    THEN /\ batchTimeout' = NoTimeout
         /\ batch' = b
         /\ batchCallbacks' = cbs
         /\ timers' = tm
         /\ UNCHANGED flushes
    ELSE LET handle == Len(flushes) + 1
         IN  /\ flushes' = Append(flushes, [params |-> b, callbacks |-> cbs,
                                            done |-> FALSE, err |-> NULL, data |-> NULL,
                                            from |-> from])
             /\ batchCallbacks' = <<>>
             /\ batch' = b
             /\ batchTimeout' = handle
             /\ timers' = tm \cup {handle}

\* _writeBatch that arms the timer again when nothing is pending
WriteBatch_rearmsWhenEmpty(b, cbs, tm, from) ==
    LET handle == Len(flushes) + 1
    IN  IF b = NULL
        THEN /\ batchTimeout' = handle
             /\ batch' = b
             /\ batchCallbacks' = cbs
             /\ timers' = tm \cup {handle}
             /\ UNCHANGED flushes
        ELSE /\ flushes' = Append(flushes, [params |-> b, callbacks |-> cbs,
                                            done |-> FALSE, err |-> NULL, data |-> NULL,
                                            from |-> from])
             /\ batchCallbacks' = <<>>
             /\ batch' = NULL
             /\ batchTimeout' = handle
             /\ timers' = tm \cup {handle}

\* _writeBatch that arms no timer after the batchWrite
WriteBatch_noTimer(b, cbs, tm, from) ==
    IF b = NULL
    THEN /\ batchTimeout' = NoTimeout
         /\ batch' = b
         /\ batchCallbacks' = cbs
         /\ timers' = tm
         /\ UNCHANGED flushes
    ELSE /\ flushes' = Append(flushes, [params |-> b, callbacks |-> cbs,
                                        done |-> FALSE, err |-> NULL, data |-> NULL,
                                        from |-> from])
         /\ batchCallbacks' = <<>>
         /\ batch' = NULL
         /\ batchTimeout' = NoTimeout
         /\ timers' = tm

\* _writeBatch, run on the batch b and callbacks cbs, with tm the timers armed;
\* from is "call" when _addToBatch runs it and "timer" when the timer does
WriteBatch(b, cbs, tm, from) ==
    IF b = NULL
    THEN /\ batchTimeout' = NoTimeout
         /\ batch' = b
         /\ batchCallbacks' = cbs
         /\ timers' = tm
         /\ UNCHANGED flushes
    ELSE LET handle == Len(flushes) + 1
         IN  /\ flushes' = Append(flushes, [params |-> b, callbacks |-> cbs,
                                            done |-> FALSE, err |-> NULL, data |-> NULL,
                                            from |-> from])
             /\ batchCallbacks' = <<>>
             /\ batch' = NULL
             /\ batchTimeout' = handle
             /\ timers' = tm \cup {handle}

\* _addToBatch that runs _writeBatch before it places the item: with the handle
\* unset nothing is pending yet, so nothing is written and no timer is armed
_addToBatch_flushFirst(table, item, cb) ==
    LET b == BatchWith(batch, table, item)
        cbs == Append(IF batch = NULL THEN <<>> ELSE batchCallbacks, cb)
    IN  /\ batch' = b
        /\ batchCallbacks' = cbs
        /\ UNCHANGED <<batchTimeout, timers, flushes>>

\* _addToBatch that writes on every call, whether or not a timer is armed
_addToBatch_flushAlways(table, item, cb) ==
    LET b == BatchWith(batch, table, item)
        cbs == Append(IF batch = NULL THEN <<>> ELSE batchCallbacks, cb)
    IN  WriteBatch(b, cbs, timers, "call")

\* _addToBatch that registers no callback for an item that replaces another
_addToBatch_dropsReplacedCb(table, item, cb) ==
    LET b0 == EnsureTable(EnsureBatch(batch), table)
        b == BatchWith(batch, table, item)
        cbs0 == IF batch = NULL THEN <<>> ELSE batchCallbacks
        cbs == IF _getIndexWithinBatch(b0, table, item) = -1 THEN Append(cbs0, cb) ELSE cbs0
    IN  IF batchTimeout = NoTimeout
        THEN WriteBatch(b, cbs, timers, "call")
        ELSE /\ batch' = b
             /\ batchCallbacks' = cbs
             /\ UNCHANGED <<batchTimeout, timers, flushes>>

\* _addToBatch( table, item, cb )
_addToBatch(table, item, cb) ==
    LET b == BatchWith(batch, table, item)
        cbs == Append(IF batch = NULL THEN <<>> ELSE batchCallbacks, cb)
    IN  IF batchTimeout = NoTimeout
        THEN WriteBatch(b, cbs, timers, "call")
        ELSE /\ batch' = b
             /\ batchCallbacks' = cbs
             /\ UNCHANGED <<batchTimeout, timers, flushes>>

\* the history entry of a set / delete call
CallEntry(op, id, data, table, item) ==
    [op |-> op, key |-> id, value |-> data, item |-> item,
     win |-> Len(flushes) + 1,
     idle |-> batchTimeout = NoTimeout,
     fires |-> timerFires,
     pos |-> LET b == EnsureTable(EnsureBatch(batch), table)
                 i == _getIndexWithinBatch(b, table, item)
             IN  IF i = -1 THEN Len(b.RequestItems[table]) + 1 ELSE i + 1]

\* set(id, data, cb)
Set(id, data) ==
    LET item == PutItem(id, data)
        cb == Len(calls) + 1
    IN  /\ _addToBatch(_getTableName(id), item, cb)
        /\ calls' = Append(calls, CallEntry("set", id, data, _getTableName(id), item))
        /\ cbLog' = Append(cbLog, <<>>)
        /\ UNCHANGED <<db, gets, timerFires, envVars>>

\* delete(id, cb)
Delete(id) ==
    LET item == DeleteItem(id)
        cb == Len(calls) + 1
    IN  /\ _addToBatch(_getTableName(id), item, cb)
        /\ calls' = Append(calls, CallEntry("delete", id, NULL, _getTableName(id), item))
        /\ cbLog' = Append(cbLog, <<>>)
        /\ UNCHANGED <<db, gets, timerFires, envVars>>

\* a timer that stays armed after it fires, as setInterval
TimerFire_interval(handle) ==
    /\ handle \in timers
    /\ WriteBatch(batch, batchCallbacks, timers, "timer")
    /\ timerFires' = timerFires + 1
    /\ UNCHANGED <<db, gets, calls, cbLog, envVars>>

\* the bufferTimeout timer fires: this._writeBatchFn
TimerFire(handle) ==
    /\ handle \in timers
    /\ WriteBatch(batch, batchCallbacks, timers \ {handle}, "timer")
    /\ timerFires' = timerFires + 1
    /\ UNCHANGED <<db, gets, calls, cbLog, envVars>>

\* _onBatchWriteComplete( callbacks, err, data ): every callback gets (err, data)
Invoke(log, callbacks, err, data, f) ==
    [c \in DOMAIN log |->
        log[c] \o [i \in 1..Cardinality({j \in DOMAIN callbacks : callbacks[j] = c}) |->
                      [err |-> err, data |-> data, by |-> f]]]

\* _onBatchWriteComplete that invokes the callbacks registered now, this._batchCallbacks,
\* instead of the ones bound when the batch was written
_onBatchWriteComplete_currentCallbacks(callbacks, err, data, f) ==
    cbLog' = Invoke(cbLog, batchCallbacks, err, data, f)

_onBatchWriteComplete(callbacks, err, data, f) ==
    cbLog' = Invoke(cbLog, callbacks, err, data, f)

\* the backend completes batchWrite call f, with an error or with success
BatchWriteComplete(f, err) ==
    /\ f \in DOMAIN flushes
    /\ ~flushes[f].done
    /\ err = NULL =>
          \A t \in DOMAIN flushes[f].params.RequestItems :
              t \in DOMAIN tableState /\ tableState[t] = "ACTIVE"
    /\ LET data == IF err = NULL THEN BatchData ELSE NULL
       IN  /\ flushes' = [flushes EXCEPT ![f].done = TRUE, ![f].err = err, ![f].data = data]
           /\ db' = IF err = NULL THEN ApplyBatch(db, flushes[f].params) ELSE db
           /\ _onBatchWriteComplete(flushes[f].callbacks, err, data, f)
    /\ UNCHANGED <<batch, batchCallbacks, batchTimeout, timers, gets, calls, timerFires, envVars>>

\* the history entry of a get call
GetEntry(id) ==
    [key |-> id,
     params |-> [TableName |-> _getTableName(id), Key |-> [ds_id |-> _getId(id)]],
     done |-> FALSE, err |-> NULL, res |-> NULL, cb |-> <<>>,
     issue |-> [after |-> Len(calls),
                settled |-> \A c \in DOMAIN calls : calls[c].key = id => cbLog[c] # <<>>]]

\* get that writes the pending batch before it reads
Get_flushesPending(id) ==
    /\ gets' = Append(gets, GetEntry(id))
    /\ WriteBatch(batch, batchCallbacks, timers, "call")
    /\ UNCHANGED <<db, calls, cbLog, timerFires, envVars>>

\* get(id, cb): issues documentClient.get
Get(id) ==
    /\ gets' = Append(gets, GetEntry(id))
    /\ UNCHANGED <<batch, batchCallbacks, batchTimeout, timers, flushes, db, calls,
                   cbLog, timerFires, envVars>>

\* GetCallback without the ResourceNotFoundException case: every error is reported
GetCallback_reportsNotFound(err, res) ==
    IF err # NULL
    THEN <<err.message>>
    ELSE IF res = NULL \/ "Item" \notin DOMAIN res
         THEN <<NULL, NULL>>
         ELSE <<NULL, transformValueFromStorage(WithoutDsId(res.Item))>>

\* GetCallback that passes the error object instead of its message
GetCallback_passesError(err, res) ==
    IF err # NULL
    THEN IF err.code = "ResourceNotFoundException"
         THEN <<NULL, NULL>>
         ELSE <<err>>
    ELSE IF res = NULL \/ "Item" \notin DOMAIN res
         THEN <<NULL, NULL>>
         ELSE <<NULL, transformValueFromStorage(WithoutDsId(res.Item))>>

\* the arguments the callback of documentClient.get passes to cb
GetCallback(err, res) ==
    IF err # NULL
    THEN IF err.code = "ResourceNotFoundException"
         THEN <<NULL, NULL>>
         ELSE <<err.message>>
    ELSE IF res = NULL \/ "Item" \notin DOMAIN res
         THEN <<NULL, NULL>>
         ELSE <<NULL, transformValueFromStorage(WithoutDsId(res.Item))>>

\* the backend's answer to a point read that does not fail
ReadItem(d, params) ==
    IF d[params.TableName][params.Key.ds_id] = Absent
    THEN <<>>
    ELSE [Item |-> d[params.TableName][params.Key.ds_id]]

\* the backend answers get call g, with an error or with the item it holds
GetRespond(g, err) ==
    /\ g \in DOMAIN gets
    /\ ~gets[g].done
    /\ LET res == IF err = NULL THEN ReadItem(db, gets[g].params) ELSE NULL
       IN  gets' = [gets EXCEPT ![g].done = TRUE, ![g].err = err, ![g].res = res,
                                ![g].cb = Append(@, GetCallback(err, res)),
                                ![g].issue = NULL]
    /\ UNCHANGED <<batch, batchCallbacks, batchTimeout, timers, flushes, db, calls,
                   cbLog, timerFires, envVars>>

-----------------------------------------------------------------------------
(* Construction.                                                            *)

\* the state before new DynamoDbConnector( options ) has run
CtorInit ==
    /\ options \in OptionInputs
    /\ connector = NULL
    /\ thrown = NULL
    /\ aws = [region |-> Undefined, clients |-> {}]
    /\ batch = Undefined
    /\ batchCallbacks = Undefined
    /\ batchTimeout = Undefined
    /\ timers = {}
    /\ flushes = <<>>
    /\ db = [t \in Tables |-> [i \in LocalIds |-> Absent]]
    /\ gets = <<>>
    /\ calls = <<>>
    /\ cbLog = <<>>
    /\ timerFires = 0
    /\ tableState = [t \in Tables |-> "ACTIVE"]
    /\ admin = <<>>

\* throw new Error( message ): the constructor ends, no instance results
Throw(message) ==
    /\ thrown' = Str(message)
    /\ UNCHANGED <<connector, aws, batch, batchCallbacks, batchTimeout>>

\* lines 62-73: the region is configured, the fields are set, the clients are created
Build ==
    /\ aws' = [region |-> Field(options, "region"),
               clients |-> {"DynamoDB", "DocumentClient"}]
    /\ batch' = NULL
    /\ batchCallbacks' = NULL
    /\ batchTimeout' = NoTimeout
    /\ connector' = [isReady |-> TRUE, name |-> Str("pkg.name"),
                     version |-> Str("pkg.version"), _options |-> options]
    /\ UNCHANGED thrown

\* the constructor without the check of options.bufferTimeout
Construct_skipsBufferTimeout ==
    /\ connector = NULL
    /\ thrown = NULL
    /\ IF options = Undefined \/ options = NULL
       THEN Throw("TypeError: Cannot read property 'region'")
       ELSE IF ~Truthy(Field(options, "region"))
            THEN Throw("options.region is required")
            ELSE Build
    /\ UNCHANGED <<options, timers, flushes, db, gets, calls, cbLog, timerFires,
                   tableState, admin>>

\* constructor(options)
Construct ==
    /\ connector = NULL
    /\ thrown = NULL
    /\ IF options = Undefined \/ options = NULL
       THEN Throw("TypeError: Cannot read property 'region'")
       ELSE IF ~Truthy(Field(options, "region"))
            THEN Throw("options.region is required")
            ELSE IF ~Truthy(Field(options, "bufferTimeout"))
                 THEN Throw("options.bufferTimeout is required")
                 ELSE Build
    /\ UNCHANGED <<options, timers, flushes, db, gets, calls, cbLog, timerFires,
                   tableState, admin>>

-----------------------------------------------------------------------------
(* Table administration.                                                    *)

\* the state of AdminSpec after construction: each table exists or does not
AdminInit ==
    /\ batch = NULL
    /\ batchCallbacks = NULL
    /\ batchTimeout = NoTimeout
    /\ timers = {}
    /\ flushes = <<>>
    /\ db = [t \in Tables |-> [i \in LocalIds |-> Absent]]
    /\ gets = <<>>
    /\ calls = <<>>
    /\ cbLog = <<>>
    /\ timerFires = 0
    /\ options = TestSettings
    /\ connector = [isReady |-> TRUE, name |-> Str("pkg.name"),
                    version |-> Str("pkg.version"), _options |-> TestSettings]
    /\ thrown = NULL
    /\ aws = [region |-> Str("eu-central-1"), clients |-> {"DynamoDB", "DocumentClient"}]
    /\ tableState \in [Tables -> {"NONE", "ACTIVE"}]
    /\ admin = <<>>

\* the state the waiter of a call waits for: 'tableExists' or 'tableNotExists'
WaitState(op) == IF op = "createTable" THEN "tableExists" ELSE "tableNotExists"

\* the history entry of a createTable / deleteTable call, with the request issued
AdminEntry(op, tableName, dontWait) ==
    [op |-> op, table |-> tableName, dontWait |-> dontWait,
     params |-> [TableName |-> tableName],
     reqDone |-> FALSE, reqErr |-> NULL, reqData |-> NULL,
     waiting |-> "none", waitDone |-> FALSE, waitErr |-> NULL, waitData |-> NULL,
     cb |-> <<>>]

\* createTable( tableName, callback, dontWait ): issues this._db.createTable
CreateTable(tableName, dontWait) ==
    /\ admin' = Append(admin, AdminEntry("createTable", tableName, dontWait))
    /\ UNCHANGED <<batch, batchCallbacks, batchTimeout, timers, flushes, db, gets, calls,
                   cbLog, timerFires, options, connector, thrown, aws, tableState>>

\* deleteTable( tableName, callback, dontWait ): issues this._db.deleteTable
DeleteTable(tableName, dontWait) ==
    /\ admin' = Append(admin, AdminEntry("deleteTable", tableName, dontWait))
    /\ UNCHANGED <<batch, batchCallbacks, batchTimeout, timers, flushes, db, gets, calls,
                   cbLog, timerFires, options, connector, thrown, aws, tableState>>

\* the request callback without the return after callback( null, data )
TableRequestCallback_noReturn(e, err, data) ==
    IF err # NULL
    THEN [e EXCEPT !.reqDone = TRUE, !.reqErr = err, !.cb = Append(@, <<err>>)]
    ELSE IF e.dontWait = Bool(TRUE)
         THEN [e EXCEPT !.reqDone = TRUE, !.reqData = data,
                        !.cb = Append(@, <<NULL, data>>), !.waiting = WaitState(e.op)]
         ELSE [e EXCEPT !.reqDone = TRUE, !.reqData = data, !.waiting = WaitState(e.op)]

\* the callback of this._db.createTable / this._db.deleteTable (lines 111-125, 146-160)
TableRequestCallback(e, err, data) ==
    IF err # NULL
    THEN [e EXCEPT !.reqDone = TRUE, !.reqErr = err, !.cb = Append(@, <<err>>)]
    ELSE IF e.dontWait = Bool(TRUE)
         THEN [e EXCEPT !.reqDone = TRUE, !.reqData = data,
                        !.cb = Append(@, <<NULL, data>>)]
         ELSE [e EXCEPT !.reqDone = TRUE, !.reqData = data, !.waiting = WaitState(e.op)]

\* the callback of this._db.waitFor (lines 122-124, 157-159)
WaitForCallback(e, err, data) ==
    [e EXCEPT !.waitDone = TRUE, !.waitErr = err, !.waitData = data,
              !.cb = Append(@, <<err, data>>)]

\* the errors the backend may answer a createTable / deleteTable request with
RequestErrors(op, state) ==
    IF op = "createTable"
    THEN IF state = "NONE" THEN {NULL, TableLimit} ELSE {TableInUse}
    ELSE IF state = "ACTIVE" THEN {NULL}
         ELSE IF state = "NONE" THEN {TableNotFound} ELSE {TableInUse}

\* the backend answers the request of call a
TableRequestRespond(a, err) ==
    /\ a \in DOMAIN admin
    /\ ~admin[a].reqDone
    /\ err \in RequestErrors(admin[a].op, tableState[admin[a].table])
    /\ LET becomes == IF admin[a].op = "createTable" THEN "CREATING" ELSE "DELETING"
           data == IF err = NULL
                   THEN [TableDescription |->
                            [TableName |-> admin[a].table, TableStatus |-> becomes]]
                   ELSE NULL
       IN  /\ tableState' = IF err = NULL
                            THEN [tableState EXCEPT ![admin[a].table] = becomes]
                            ELSE tableState
           /\ admin' = [admin EXCEPT ![a] = TableRequestCallback(@, err, data)]
    /\ UNCHANGED <<batch, batchCallbacks, batchTimeout, timers, flushes, db, gets, calls,
                   cbLog, timerFires, options, connector, thrown, aws>>

\* the waiter of call a ends: with the state reached, or given up with an error
WaitForRespond(a, err) ==
    /\ a \in DOMAIN admin
    /\ admin[a].waiting # "none"
    /\ ~admin[a].waitDone
    /\ err = NULL =>
          tableState[admin[a].table] =
              (IF admin[a].waiting = "tableExists" THEN "ACTIVE" ELSE "NONE")
    /\ LET data == IF err = NULL
                   THEN [state |-> admin[a].waiting, TableName |-> admin[a].table]
                   ELSE NULL
       IN  admin' = [admin EXCEPT ![a] = WaitForCallback(@, err, data)]
    /\ UNCHANGED <<batch, batchCallbacks, batchTimeout, timers, flushes, db, gets, calls,
                   cbLog, timerFires, options, connector, thrown, aws, tableState>>

\* the backend finishes creating or deleting a table
TableSettles(t) ==
    /\ tableState[t] \in {"CREATING", "DELETING"}
    /\ tableState' = [tableState EXCEPT ![t] = IF @ = "CREATING" THEN "ACTIVE" ELSE "NONE"]
    /\ UNCHANGED <<batch, batchCallbacks, batchTimeout, timers, flushes, db, gets, calls,
                   cbLog, timerFires, options, connector, thrown, aws, admin>>

-----------------------------------------------------------------------------
(* Specifications.                                                          *)

Next ==
    \/ \E in \in SetInputs : Len(calls) < MaxCalls /\ Set(in[1], in[2])
    \/ \E id \in DeleteInputs : Len(calls) < MaxCalls /\ Delete(id)
    \/ \E handle \in timers : TimerFire(handle)
    \/ \E f \in DOMAIN flushes, err \in BatchErrors \cup {NULL} : BatchWriteComplete(f, err)

Spec == Init /\ [][Next]_vars

\* set and delete with an armed timer eventually firing and the backend
\* eventually completing each batchWrite call
LiveNext ==
    \/ \E in \in LiveSetInputs : Len(calls) < MaxLiveCalls /\ Set(in[1], in[2])
    \/ \E id \in LiveDeleteInputs : Len(calls) < MaxLiveCalls /\ Delete(id)
    \/ \E handle \in timers : TimerFire(handle)
    \/ \E f \in DOMAIN flushes, err \in BatchErrors \cup {NULL} : BatchWriteComplete(f, err)

LiveSpec ==
    /\ Init /\ [][LiveNext]_vars
    /\ WF_vars(\E handle \in timers : TimerFire(handle))
    /\ \A f \in 1..MaxLiveCalls :
          WF_vars(\E err \in BatchErrors \cup {NULL} : BatchWriteComplete(f, err))

\* set, delete and get on one key, with the backend's items
StoreNext ==
    \/ \E in \in StoreSetInputs : Len(calls) < MaxStoreCalls /\ Set(in[1], in[2])
    \/ \E id \in StoreDeleteInputs : Len(calls) < MaxStoreCalls /\ Delete(id)
    \/ \E handle \in timers : TimerFire(handle)
    \/ \E f \in DOMAIN flushes, err \in BatchErrors \cup {NULL} : BatchWriteComplete(f, err)
    \/ \E id \in StoreGetInputs : Len(gets) < MaxGets /\ Get(id)
    \/ \E g \in DOMAIN gets, err \in GetErrors \cup {NULL} : GetRespond(g, err)

StoreSpec == Init /\ [][StoreNext]_vars

\* as StoreSpec, with windows long enough to hold three calls on the key
DeepNext ==
    \/ \E in \in DeepSetInputs : Len(calls) < MaxDeepCalls /\ Set(in[1], in[2])
    \/ \E id \in DeepDeleteInputs : Len(calls) < MaxDeepCalls /\ Delete(id)
    \/ \E handle \in timers : TimerFire(handle)
    \/ \E f \in DOMAIN flushes, err \in BatchErrors \cup {NULL} : BatchWriteComplete(f, err)
    \/ \E id \in DeepGetInputs : Len(gets) < MaxGets /\ Get(id)
    \/ \E g \in DOMAIN gets, err \in GetErrors \cup {NULL} : GetRespond(g, err)

DeepSpec == Init /\ [][DeepNext]_vars

\* set and delete with keys of any length
KeyNext ==
    \/ \E in \in KeySetInputs : Len(calls) < MaxKeyCalls /\ Set(in[1], in[2])
    \/ \E id \in KeyDeleteInputs : Len(calls) < MaxKeyCalls /\ Delete(id)
    \/ \E handle \in timers : TimerFire(handle)
    \/ \E f \in DOMAIN flushes, err \in BatchErrors \cup {NULL} : BatchWriteComplete(f, err)

KeySpec == Init /\ [][KeyNext]_vars

\* set and delete of one local id in two tables
TableNext ==
    \/ \E in \in TableSetInputs : Len(calls) < MaxTableCalls /\ Set(in[1], in[2])
    \/ \E id \in TableDeleteInputs : Len(calls) < MaxTableCalls /\ Delete(id)
    \/ \E handle \in timers : TimerFire(handle)
    \/ \E f \in DOMAIN flushes, err \in BatchErrors \cup {NULL} : BatchWriteComplete(f, err)

TableSpec == Init /\ [][TableNext]_vars

\* the constructor on any argument, then set and delete on the instance, if any
CtorNext ==
    \/ Construct
    \/ \E in \in CtorSetInputs :
          connector # NULL /\ Len(calls) < MaxCtorCalls /\ Set(in[1], in[2])
    \/ \E id \in CtorDeleteInputs :
          connector # NULL /\ Len(calls) < MaxCtorCalls /\ Delete(id)
    \/ \E handle \in timers : TimerFire(handle)
    \/ \E f \in DOMAIN flushes, err \in BatchErrors \cup {NULL} : BatchWriteComplete(f, err)

CtorSpec == CtorInit /\ [][CtorNext]_vars

\* createTable and deleteTable, with the backend eventually answering each
\* request and each waiter eventually ending
AdminNext ==
    \/ \E t \in AdminTables, dontWait \in DontWaitInputs :
          Len(admin) < MaxAdminCalls /\ CreateTable(t, dontWait)
    \/ \E t \in AdminTables, dontWait \in DontWaitInputs :
          Len(admin) < MaxAdminCalls /\ DeleteTable(t, dontWait)
    \/ \E a \in DOMAIN admin, err \in {NULL, TableLimit, TableInUse, TableNotFound} :
          TableRequestRespond(a, err)
    \/ \E a \in DOMAIN admin, err \in {NULL, NotReady} : WaitForRespond(a, err)
    \/ \E t \in Tables : TableSettles(t)

AdminSpec ==
    /\ AdminInit /\ [][AdminNext]_vars
    /\ \A a \in 1..MaxAdminCalls :
          /\ WF_vars(\E err \in {NULL, TableLimit, TableInUse, TableNotFound} :
                        TableRequestRespond(a, err))
          /\ WF_vars(\E err \in {NULL, NotReady} : WaitForRespond(a, err))

-----------------------------------------------------------------------------
(* Vocabulary of the properties.                                            *)

Max(S) == CHOOSE x \in S : \A y \in S : y <= x

CallTable(c) == _getTableName(calls[c].key)
CallId(c) == _getId(calls[c].key)

\* the calls flush f carries: those enqueued after flush f - 1 and up to flush f
CallsOf(f) == {c \in DOMAIN calls : calls[c].win = f}

\* the calls of flush f with the same kind and key as call c
SameOpIn(f, c) ==
    {d \in CallsOf(f) : calls[d].op = calls[c].op /\ calls[d].key = calls[c].key}

\* the calls of flush f on the key of call c
SameKeyIn(f, c) == {d \in CallsOf(f) : calls[d].key = calls[c].key}

Range(seq) == {seq[i] : i \in DOMAIN seq}

\* the list flush f sends for the table of call c
ListOf(f, c) == flushes[f].params.RequestItems[CallTable(c)]

\* the item call c asks for, from its arguments
Wanted(c) ==
    IF calls[c].op = "set" THEN PutItem(calls[c].key, calls[c].value)
    ELSE DeleteItem(calls[c].key)

InvokedOnce(c) == Len(cbLog[c]) = 1

-----------------------------------------------------------------------------
(* Properties.                                                              *)

Kinds(cs, t) ==
    Cardinality({<<calls[c].op, calls[c].key>> : c \in {d \in cs : CallTable(d) = t}})

\* the batch of flush f is the calls cs with each (kind, key) kept once, as its last call
CarriesDeduplicated(f, cs) ==
    LET items == flushes[f].params.RequestItems
    IN  /\ DOMAIN items = {CallTable(c) : c \in cs}
        /\ \A t \in DOMAIN items :
              /\ Len(items[t]) = Kinds(cs, t)
              /\ \A c \in cs : CallTable(c) = t =>
                    Wanted(Max({d \in cs : calls[d].op = calls[c].op
                                            /\ calls[d].key = calls[c].key}))
                        \in Range(items[t])

\* C3: N >= 2 set / delete calls made from the initial Idle state, all before the
\* first timer fire, give one batchWrite issued inside the first call with only
\* the first operation, no other batchWrite until the timer fires, and after the
\* fire exactly two batchWrite calls, the second issued by the timer and carrying
\* the deduplicated operations of calls 2..N with their N - 1 callbacks.
C3_WindowBound ==
    (Len(calls) >= 2 /\ \A c \in DOMAIN calls : calls[c].fires = 0) =>
        /\ Len(flushes) >= 1
        /\ flushes[1].from = "call"
        /\ flushes[1].callbacks = <<1>>
        /\ flushes[1].params = [RequestItems |-> (CallTable(1) :> <<Wanted(1)>>)]
        /\ timerFires = 0 => Len(flushes) = 1
        /\ timerFires >= 1 =>
              /\ Len(flushes) = 2
              /\ flushes[2].from = "timer"
              /\ flushes[2].callbacks = [i \in 1..(Len(calls) - 1) |-> i + 1]
              /\ CarriesDeduplicated(2, 2..Len(calls))

\* set x, set y, delete x before the first timer fire: {Put x} then {Put y, Delete x}
C3_Witness ==
    /\ Len(calls) = 3
    /\ calls[1].op = "set" /\ calls[1].key = KeyAX
    /\ calls[2].op = "set" /\ calls[2].key = KeyAY
    /\ calls[3].op = "delete" /\ calls[3].key = KeyAX
    /\ \A c \in DOMAIN calls : calls[c].fires = 0
    /\ Len(flushes) = 2
    /\ flushes[1].params.RequestItems = (TableA :> <<Wanted(1)>>)
    /\ flushes[2].params.RequestItems = (TableA :> <<Wanted(2), Wanted(3)>>)
    /\ timers = {}

\* C4: a timer fire that finds no pending batch issues no batchWrite and leaves
\* no timer armed and the handle unset; and a set / delete made while the handle
\* is unset is flushed within the call itself: the call adds one batchWrite that
\* carries it, and leaves nothing pending.
C4_IdleRestart ==
    [][ /\ (timerFires' = timerFires + 1 /\ batch = NULL) =>
              /\ flushes' = flushes
              /\ batchTimeout' = NoTimeout
              /\ timers' = {}
        /\ (Len(calls') = Len(calls) + 1 /\ batchTimeout = NoTimeout) =>
              /\ Len(flushes') = Len(flushes) + 1
              /\ flushes'[Len(flushes')].from = "call"
              /\ flushes'[Len(flushes')].callbacks = <<Len(calls')>>
              /\ flushes'[Len(flushes')].params =
                    [RequestItems |-> (_getTableName(calls'[Len(calls')].key)
                                          :> <<calls'[Len(calls')].item>>)]
              /\ batch' = NULL
      ]_vars

\* a call made after a timer fire closed an empty window, and flushed at once
C4_Witness ==
    \E c \in DOMAIN calls :
        /\ calls[c].idle /\ calls[c].fires >= 1
        /\ calls[c].win \in DOMAIN flushes
        /\ flushes[calls[c].win].callbacks = <<c>>
        /\ flushes[calls[c].win].from = "call"

C1_CallbackExactlyOnce ==
    /\ [](\A c \in DOMAIN calls : Len(cbLog[c]) <= 1)
    /\ \A c \in 1..MaxLiveCalls :
          (c \in DOMAIN calls) ~> (c \in DOMAIN calls /\ InvokedOnce(c))

\* a call whose operation was replaced by a later call of its window, invoked once
C1_Witness ==
    \E c1, c2 \in DOMAIN calls :
        /\ c1 < c2
        /\ calls[c1].op = calls[c2].op /\ calls[c1].key = calls[c2].key
        /\ calls[c1].win = calls[c2].win
        /\ InvokedOnce(c1) /\ InvokedOnce(c2)

\* the item the key of call c holds once the backend has applied, in list order,
\* the list flush f sends for the key's table
HeldAfter(f, c) ==
    ApplyList([i \in LocalIds |-> Absent], ListOf(f, c))[CallId(c)]

\* C5: for the set / delete calls on one key that one flush carries, the flushed
\* list, applied in list order, leaves the key as the last of those calls asks:
\* holding the item of the last set, or absent when the last call is a delete.
C5_LastWriteWins ==
    \A f \in DOMAIN flushes : \A c \in CallsOf(f) :
        LET last == Max(SameKeyIn(f, c))
        IN  HeldAfter(f, c) =
                IF calls[last].op = "set" THEN Wanted(last).PutRequest.Item ELSE Absent

\* the backend's items had it applied the first n batchWrite calls that
\* succeeded in the order they were issued
RECURSIVE AppliedInOrder(_)
AppliedInOrder(n) ==
    IF n = 0 THEN [t \in Tables |-> [i \in LocalIds |-> Absent]]
    ELSE IF flushes[n].done /\ flushes[n].err = NULL
         THEN ApplyBatch(AppliedInOrder(n - 1), flushes[n].params)
         ELSE AppliedInOrder(n - 1)

\* C8: a get that is answered without a backend error, issued when every earlier
\* set / delete on its key had completed and answered before any later one, after
\* a last call set(key, v) that completed with a null error, with no batchWrite
\* applied ahead of one issued before it, calls back once with a null error and
\* the value v, which has no field ds_id.
C8_RoundTrip ==
    [][\A g \in DOMAIN gets :
          LET writes == {c \in DOMAIN calls : calls[c].key = gets[g].key}
              last == Max(writes)
          IN  (/\ ~gets[g].done /\ gets'[g].done
               /\ gets'[g].err = NULL
               /\ gets[g].issue.settled
               /\ gets[g].issue.after = Len(calls)
               /\ writes # {}
               /\ calls[last].op = "set"
               /\ cbLog[last][1].err = NULL
               /\ db = AppliedInOrder(Len(flushes)))
              => /\ gets'[g].cb = << <<NULL, calls[last].value>> >>
                 /\ "ds_id" \notin DOMAIN gets'[g].cb[1][2]
      ]_vars

\* a backend 'not found' answer: no error and no item, or ResourceNotFoundException
NotFound(err, res) ==
    \/ err = NULL /\ "Item" \notin DOMAIN res
    \/ err # NULL /\ err.code = "ResourceNotFoundException"

\* C9: the callback of a get is invoked once, when the backend answers, and never
\* again; when the key has no stored item at the read, or the backend answers
\* ResourceNotFoundException, the callback gets a null error and a null value.
C9_NotFoundIsNull ==
    [][\A g \in DOMAIN gets :
          /\ gets[g].done => gets'[g] = gets[g]
          /\ ~gets[g].done => gets[g].cb = <<>>
          /\ (~gets[g].done /\ gets'[g].done) =>
                /\ Len(gets'[g].cb) = 1
                /\ (gets'[g].err = NULL
                       /\ db[_getTableName(gets[g].key)][_getId(gets[g].key)] = Absent)
                      => gets'[g].cb = << <<NULL, NULL>> >>
                /\ NotFound(gets'[g].err, gets'[g].res)
                      => gets'[g].cb = << <<NULL, NULL>> >>
      ]_vars

\* a get of a key removed by a delete that reported success, answered (null, null),
\* after the key had held an item
C9_Witness ==
    \E g \in DOMAIN gets : \E c1, c2 \in DOMAIN calls :
        /\ c1 < c2 /\ c2 = Len(calls)
        /\ calls[c1].op = "set" /\ calls[c2].op = "delete"
        /\ calls[c1].key = gets[g].key /\ calls[c2].key = gets[g].key
        /\ cbLog[c1] # <<>> /\ cbLog[c1][1].err = NULL
        /\ cbLog[c2] # <<>> /\ cbLog[c2][1].err = NULL
        /\ gets[g].done /\ gets[g].err = NULL
        /\ gets[g].cb = << <<NULL, NULL>> >>

\* a backend error of get other than not-found
OtherError(g) ==
    gets[g].done /\ gets[g].err # NULL /\ gets[g].err.code # "ResourceNotFoundException"

\* C10 as stated: on a backend error other than not-found, the callback of get is
\* invoked once with the backend's error itself and no result.
C10_ErrorVerbatim ==
    \A g \in DOMAIN gets : OtherError(g) => gets[g].cb = << <<gets[g].err>> >>

\* C10 as amended: on a backend error other than not-found, the callback of get
\* is invoked once with the error's message (err.message) as its only argument.
C10_ErrorMessage ==
    \A g \in DOMAIN gets : OtherError(g) => gets[g].cb = << <<gets[g].err.message>> >>

\* a get answered with InternalServerError
C10_Witness ==
    \E g \in DOMAIN gets :
        /\ OtherError(g)
        /\ gets[g].err \in GetErrors
        /\ Len(gets[g].cb) = 1

\* the callback arguments of a get answered with the item the backend holds now
CurrentItemAnswer(g) ==
    LET held == db[_getTableName(gets[g].key)][_getId(gets[g].key)]
    IN  IF held = Absent THEN <<NULL, NULL>>
        ELSE <<NULL, transformValueFromStorage(WithoutDsId(held))>>

\* C11: a get call issues its point read within the call and leaves the pending
\* batch, the registered callbacks, the timer handle, the armed timers and the
\* batchWrite calls as they are; its answer, which the backend may give while
\* operations are pending in the batch, leaves them as they are too and carries
\* the item the backend holds for the key at that moment.
C11_GetBypassesBatch ==
    [][ /\ Len(gets') = Len(gets) + 1 =>
              /\ UNCHANGED <<batch, batchCallbacks, batchTimeout, timers, flushes>>
              /\ ~gets'[Len(gets')].done
              /\ gets'[Len(gets')].params.TableName = _getTableName(gets'[Len(gets')].key)
              /\ gets'[Len(gets')].params.Key.ds_id = _getId(gets'[Len(gets')].key)
        /\ \A g \in DOMAIN gets :
              (~gets[g].done /\ gets'[g].done) =>
                  /\ UNCHANGED <<batch, batchCallbacks, batchTimeout, timers, flushes>>
                  /\ gets'[g].err = NULL => gets'[g].cb = <<CurrentItemAnswer(g)>>
      ]_vars

\* a get answered with the first value of its key while a set of the second
\* value for that key is still pending in the batch
C11_Witness ==
    \E g \in DOMAIN gets :
        /\ gets[g].done
        /\ gets[g].cb = << <<NULL, Value1>> >>
        /\ batch # NULL
        /\ TableA \in DOMAIN batch.RequestItems
        /\ batch.RequestItems[TableA] = <<PutItem(gets[g].key, Value2)>>

\* the callback of call a was invoked as the code's three cases say
AdminCallbackAsSpecified(a) ==
    LET e == admin[a]
    IN  /\ Len(e.cb) <= 1
        /\ ~e.reqDone => e.cb = <<>> /\ e.waiting = "none"
        /\ (e.reqDone /\ e.reqErr # NULL) => e.cb = << <<e.reqErr>> >> /\ e.waiting = "none"
        /\ (e.reqDone /\ e.reqErr = NULL /\ e.dontWait = Bool(TRUE)) =>
              e.cb = << <<NULL, e.reqData>> >> /\ e.waiting = "none"
        /\ (e.reqDone /\ e.reqErr = NULL /\ e.dontWait # Bool(TRUE)) =>
              /\ e.waiting = WaitState(e.op)
              /\ ~e.waitDone => e.cb = <<>>
              /\ e.waitDone => e.cb = << <<e.waitErr, e.waitData>> >>

\* C12: the callback of createTable / deleteTable is never invoked twice and,
\* when the backend answers each request and each waiter ends, is eventually
\* invoked; when dontWait is not true and the request succeeds it is invoked only
\* when the waiter for tableExists / tableNotExists has ended, with the waiter's
\* result; when dontWait is true it is invoked when the request is acknowledged,
\* with a null error, and no waiter is started; when the request fails it gets
\* that error and no waiter is started.
C12_TableCallback ==
    /\ [](\A a \in DOMAIN admin : AdminCallbackAsSpecified(a))
    /\ \A a \in 1..MaxAdminCalls :
          (a \in DOMAIN admin) ~> (a \in DOMAIN admin /\ Len(admin[a].cb) = 1)

\* a table created with waiting, its callback invoked when the table exists, and
\* a second createTable of the same table failed with the backend's error
C12_Witness ==
    \E a1, a2 \in DOMAIN admin :
        /\ a1 < a2
        /\ admin[a1].op = "createTable" /\ admin[a2].op = "createTable"
        /\ admin[a1].table = admin[a2].table
        /\ admin[a1].dontWait = Undefined
        /\ admin[a1].waitDone /\ admin[a1].waitErr = NULL
        /\ Len(admin[a1].cb) = 1 /\ admin[a1].cb[1][1] = NULL
        /\ admin[a2].cb = << <<TableInUse>> >>
        /\ admin[a2].waiting = "none"

\* the constructor's argument lacks a region or a bufferTimeout
MissingRequired ==
    \/ options = Undefined
    \/ options = NULL
    \/ ~Truthy(Field(options, "region"))
    \/ ~Truthy(Field(options, "bufferTimeout"))

C14_RegionOnlyReady ==
    (options = RegionOnlySettings /\ (thrown # NULL \/ connector # NULL)) =>
        /\ thrown = NULL
        /\ connector # NULL
        /\ connector.isReady = TRUE

Min(a, b) == IF a <= b THEN a ELSE b

\* the first 6 characters of a key, and the characters after them
FirstSix(key) == SubSeq(key, 1, Min(NamespaceWidth, Len(key)))
AfterSix(key) == SubSeq(key, NamespaceWidth + 1, Len(key))

\* the request items call c went into: those of its flush, or the pending batch
RoutedInto(c) ==
    IF calls[c].win \in DOMAIN flushes THEN flushes[calls[c].win].params.RequestItems
    ELSE batch.RequestItems

\* the ds_id an item carries
DsIdOf(item) ==
    IF IsPut(item) THEN item.PutRequest.Item.ds_id ELSE item.DeleteRequest.Key.ds_id

\* C15: for the key of every set / delete call, of any length, the table name is
\* the key's first 6 characters and the local id is the rest, so the two
\* concatenated give the key, and a key shorter than 6 characters has an empty
\* local id; "abcdefghij" gives "abcdef" and "ghij"; and the call's operation is
\* in the list of that table, of the call's kind, with that local id as ds_id.
C15_KeySplit ==
    /\ _getTableName(KeyLong) = <<"a", "b", "c", "d", "e", "f">>
    /\ _getId(KeyLong) = <<"g", "h", "i", "j">>
    /\ \A c \in DOMAIN calls :
          LET key == calls[c].key
          IN  /\ _getTableName(key) = FirstSix(key)
              /\ _getId(key) = AfterSix(key)
              /\ _getTableName(key) \o _getId(key) = key
              /\ Len(key) < NamespaceWidth => _getId(key) = <<>>
              /\ FirstSix(key) \in DOMAIN RoutedInto(c)
              /\ \E i \in DOMAIN RoutedInto(c)[FirstSix(key)] :
                    LET item == RoutedInto(c)[FirstSix(key)][i]
                    IN  /\ IsPut(item) <=> calls[c].op = "set"
                        /\ DsIdOf(item) = AfterSix(key)

\* one batchWrite carrying a Put of the ten-character key in table "abcdef" with
\* ds_id "ghij" and a Delete of the three-character key in table "abc" with an
\* empty ds_id
C15_Witness ==
    \E f \in DOMAIN flushes :
        LET items == flushes[f].params.RequestItems
        IN  /\ <<"a", "b", "c", "d", "e", "f">> \in DOMAIN items
            /\ \E i \in DOMAIN items[<<"a", "b", "c", "d", "e", "f">>] :
                  /\ IsPut(items[<<"a", "b", "c", "d", "e", "f">>][i])
                  /\ DsIdOf(items[<<"a", "b", "c", "d", "e", "f">>][i]) = <<"g", "h", "i", "j">>
            /\ KeyShort \in DOMAIN items
            /\ \E i \in DOMAIN items[KeyShort] :
                  /\ IsDelete(items[KeyShort][i])
                  /\ DsIdOf(items[KeyShort][i]) = <<>>

\* C16: the pending batch never holds two operations with the same local id in
\* the list of one table.
C16_OnePerKey ==
    batch # NULL =>
        \A t \in DOMAIN batch.RequestItems :
            \A i, j \in DOMAIN batch.RequestItems[t] :
                DsIdOf(batch.RequestItems[t][i]) = DsIdOf(batch.RequestItems[t][j]) => i = j

\* the list the batch b holds for table t, empty when it holds none
PendingList(b, t) ==
    IF b # NULL /\ t \in DOMAIN b.RequestItems THEN b.RequestItems[t] ELSE <<>>

\* the tables the batch b holds a list for
PendingTables(b) == IF b = NULL THEN {} ELSE DOMAIN b.RequestItems

\* C17: a set / delete call made while the timer is armed replaces, in the list
\* of its table, the one pending item of its own kind with its local id, at that
\* item's index, and is appended when the list has no such item; the items of the
\* other kind and the lists of the other tables stay as they are.  So a flush
\* that carries a set and then a delete of one key holds both the Put and the
\* Delete, and one that carries sets of one local id in two tables holds a Put
\* in each table's list.
C17_DedupByKindAndTable ==
    [][ /\ (Len(calls') = Len(calls) + 1 /\ batchTimeout # NoTimeout) =>
              LET c == Len(calls')
                  t == FirstSix(calls'[c].key)
                  item == calls'[c].item
                  old == PendingList(batch, t)
                  new == PendingList(batch', t)
                  same == {i \in DOMAIN old :
                              /\ IsPut(old[i]) <=> IsPut(item)
                              /\ DsIdOf(old[i]) = AfterSix(calls'[c].key)}
              IN  /\ Cardinality(same) <= 1
                  /\ same = {} => new = Append(old, item)
                  /\ \A i \in same : new = [old EXCEPT ![i] = item]
                  /\ PendingTables(batch') = PendingTables(batch) \cup {t}
                  /\ \A u \in PendingTables(batch) \ {t} :
                        PendingList(batch', u) = PendingList(batch, u)
        /\ \A f \in DOMAIN flushes : \A c1, c2 \in CallsOf(f) :
              /\ (c1 < c2 /\ calls[c1].op = "set" /\ calls[c2].op = "delete"
                     /\ calls[c1].key = calls[c2].key) =>
                    /\ \E i \in DOMAIN ListOf(f, c1) : ListOf(f, c1)[i] = Wanted(Max(SameOpIn(f, c1)))
                    /\ \E i \in DOMAIN ListOf(f, c1) : ListOf(f, c1)[i] = Wanted(Max(SameOpIn(f, c2)))
              /\ (calls[c1].op = calls[c2].op /\ CallId(c1) = CallId(c2)
                     /\ CallTable(c1) # CallTable(c2)) =>
                    /\ Wanted(Max(SameOpIn(f, c1))) \in Range(ListOf(f, c1))
                    /\ Wanted(Max(SameOpIn(f, c2))) \in Range(ListOf(f, c2))
      ]_vars

\* a batchWrite that carries, from a set and a later delete of one key, the Put
\* and the Delete in the list of the key's table
C17_Witness ==
    \E f \in DOMAIN flushes : \E c1, c2 \in CallsOf(f) :
        /\ c1 < c2 /\ calls[c1].op = "set" /\ calls[c2].op = "delete"
        /\ calls[c1].key = calls[c2].key
        /\ ListOf(f, c1) = <<Wanted(c1), Wanted(c2)>>
        /\ \E c0 \in DOMAIN calls : CallTable(c0) # CallTable(c1) /\ CallId(c0) = CallId(c1)

\* how many times call c is registered in the list of callbacks cbs
TimesIn(cbs, c) == Cardinality({i \in DOMAIN cbs : cbs[i] = c})

\* C18: every set / delete call is registered with exactly one batchWrite, the
\* first one issued at or after the call, or is still pending; a batchWrite
\* carries the operations of the calls registered with it, each (kind, key) once
\* as its last call, and nothing else; the batch and callbacks handed to a
\* batchWrite never change afterwards, and the calls after the hand-over go into
\* a new batch.
C18_FlushedOnce ==
    [][ /\ \A c \in DOMAIN calls :
              /\ \A f \in DOMAIN flushes :
                    TimesIn(flushes[f].callbacks, c) = (IF f = calls[c].win THEN 1 ELSE 0)
              /\ calls[c].win \notin DOMAIN flushes =>
                    /\ calls[c].win = Len(flushes) + 1
                    /\ batch # NULL
                    /\ TimesIn(batchCallbacks, c) = 1
              /\ (calls[c].win \in DOMAIN flushes /\ batch # NULL) =>
                    TimesIn(batchCallbacks, c) = 0
        /\ \A f \in DOMAIN flushes :
              /\ CallsOf(f) # {}
              /\ CarriesDeduplicated(f, CallsOf(f))
              /\ flushes'[f].params = flushes[f].params
              /\ flushes'[f].callbacks = flushes[f].callbacks
        /\ Len(flushes') > Len(flushes) =>
              /\ Len(flushes') = Len(flushes) + 1
              /\ batch' = NULL
              /\ \A c \in DOMAIN calls' :
                    calls'[c].win = Len(flushes') <=>
                        (c \notin DOMAIN calls \/ calls[c].win \notin DOMAIN flushes)
      ]_vars

\* two batchWrite calls issued and still in flight, and a later call pending
\* alone in a new batch
C18_Witness ==
    /\ Len(flushes) = 2
    /\ ~flushes[1].done /\ ~flushes[2].done
    /\ batch # NULL
    /\ CallsOf(3) = {3}
    /\ batch.RequestItems = (CallTable(3) :> <<Wanted(3)>>)
    /\ batchCallbacks = <<3>>

\* C19: a batchWrite is issued only in a step that arms a timer: by a call made
\* with no timer armed and the handle unset, or by the firing of the one armed
\* timer; a set / delete made while the handle is set issues no batchWrite and
\* leaves the handle and the armed timer as they are.  So the timer armed with a
\* batchWrite has fired before the next batchWrite is issued, however many calls
\* are made.
C19_FlushOnlyWhenArming ==
    [][ /\ Len(flushes') > Len(flushes) =>
              /\ Len(flushes') = Len(flushes) + 1
              /\ timers' = {Len(flushes')}
              /\ batchTimeout' = Len(flushes')
              /\ \/ /\ Len(calls') = Len(calls) + 1
                    /\ batchTimeout = NoTimeout
                    /\ timers = {}
                    /\ timerFires' = timerFires
                 \/ /\ timerFires' = timerFires + 1
                    /\ timers = {Len(flushes)}
                    /\ calls' = calls
        /\ (Len(calls') = Len(calls) + 1 /\ batchTimeout # NoTimeout) =>
              /\ flushes' = flushes
              /\ timers' = timers
              /\ batchTimeout' = batchTimeout
              /\ timers = {batchTimeout}
        /\ timerFires >= Len(flushes) - 1
        /\ timers \subseteq {Len(flushes)}
      ]_vars

\* three calls, two of them made while the timer was armed, and two batchWrite
\* calls with one timer expiry between them
C19_Witness ==
    /\ Len(calls) = 3
    /\ Len(flushes) = 2
    /\ timerFires = 1
    /\ CallsOf(2) = {2, 3}
    /\ ~calls[2].idle /\ ~calls[3].idle
    /\ flushes[2].from = "timer"

\* C20: at most one timer is armed and unfired, and it is the one the handle
\* names; a timer is armed only when none is armed or by the firing of the one
\* that was.
C20_OneTimer ==
    [][ /\ Cardinality(timers) <= 1
        /\ timers # {} => timers = {batchTimeout}
        /\ batchTimeout = NoTimeout => timers = {}
        /\ Cardinality(timers') <= 1
        /\ (timers' \ timers) # {} =>
              \/ timers = {}
              \/ timerFires' = timerFires + 1 /\ timers = {batchTimeout}
      ]_vars

\* a timer armed by the firing of the one before it, with a batchWrite completed
\* and another in flight
C20_Witness ==
    /\ timerFires = 1
    /\ timers = {2}
    /\ batchTimeout = 2
    /\ flushes[1].done
    /\ ~flushes[2].done
    /\ batch # NULL

\* the number of operations in the request items of a batch
RECURSIVE CountItems(_, _)
CountItems(items, tables) ==
    IF tables = {} THEN 0
    ELSE LET t == CHOOSE u \in tables : TRUE
         IN  Len(items[t]) + CountItems(items, tables \ {t})

OperationsIn(b) == CountItems(b.RequestItems, DOMAIN b.RequestItems)

\* the batch b has a table, and no table of it has an empty list
NoEmptyList(b) ==
    /\ DOMAIN b.RequestItems # {}
    /\ \A t \in DOMAIN b.RequestItems : Len(b.RequestItems[t]) >= 1

\* C21: between any two calls or events, a pending batch holds at least one
\* operation and no empty list, at least as many callbacks are registered as
\* operations are pending, and a timer is armed, the one the handle names; and
\* every batchWrite was called with a batch that has no empty list and at least
\* as many callbacks as operations.
C21_PendingHasTimer ==
    /\ batch # NULL =>
          /\ NoEmptyList(batch)
          /\ OperationsIn(batch) >= 1
          /\ Len(batchCallbacks) >= OperationsIn(batch)
          /\ batchTimeout # NoTimeout
          /\ timers = {batchTimeout}
    /\ \A f \in DOMAIN flushes :
          /\ NoEmptyList(flushes[f].params)
          /\ Len(flushes[f].callbacks) >= OperationsIn(flushes[f].params)

\* a pending batch of one operation with two callbacks, the second call having
\* replaced the operation of the first, while the timer is armed
C21_Witness ==
    /\ batch # NULL
    /\ OperationsIn(batch) = 1
    /\ Len(batchCallbacks) = 2
    /\ timers # {}
    /\ calls[2].value # calls[3].value

\* the scheduler is Idle: nothing pending, the handle unset, no timer armed
Idle == batch = NULL /\ batchTimeout = NoTimeout /\ timers = {}

\* C22: a timer fire that finds nothing pending unsets the handle, arms no timer
\* and issues no batchWrite; from Idle only a set / delete call arms a timer or
\* issues a batchWrite; and, armed timers eventually firing, once the calls have
\* stopped the scheduler is eventually Idle for good, with every call handed to
\* a batchWrite.
C22_ReturnsToIdle ==
    /\ [][ /\ (timerFires' = timerFires + 1 /\ batch = NULL) =>
                 Idle' /\ Len(flushes') = Len(flushes)
           /\ (Idle /\ calls' = calls) =>
                 Idle' /\ Len(flushes') = Len(flushes) /\ timerFires' = timerFires
         ]_vars
    /\ <>[](Idle /\ \A c \in DOMAIN calls : calls[c].win \in DOMAIN flushes)

\* Idle again after two batchWrite calls, the second issued by a timer fire, and
\* a last fire that found nothing pending
C22_Witness ==
    /\ Idle
    /\ Len(flushes) = 2
    /\ flushes[2].from = "timer"
    /\ timerFires = 2
    /\ Len(calls) >= 2

\* C23: for two set / delete calls on one key carried by different batchWrite
\* calls, each the only call on the key in its batchWrite, once both batchWrite
\* calls have completed without error and nothing else on the key is in flight or
\* pending, the backend holds for the key what the later call asked: its item,
\* or nothing after a delete.
C23_LaterWindowWins ==
    \A c1, c2 \in DOMAIN calls :
        (/\ c1 < c2
         /\ calls[c1].key = calls[c2].key
         /\ calls[c1].win # calls[c2].win
         /\ \A c \in DOMAIN calls : calls[c].key = calls[c2].key => c \in {c1, c2}
         /\ calls[c1].win \in DOMAIN flushes /\ calls[c2].win \in DOMAIN flushes
         /\ flushes[calls[c1].win].done /\ flushes[calls[c1].win].err = NULL
         /\ flushes[calls[c2].win].done /\ flushes[calls[c2].win].err = NULL)
        => db[CallTable(c2)][CallId(c2)] =
              (IF calls[c2].op = "set" THEN Wanted(c2).PutRequest.Item ELSE Absent)

====
